---- MODULE Spec2Model ----
(***************************************************************************)
(* Model of src/app/api/bot/route.ts: the Telegram webhook handler POST    *)
(* of the LinguaTutor bot.  One handler invocation per inbound event; the  *)
(* handler parses the update, filters voice messages, fetches the audio,   *)
(* transcribes it, asks the tutor model for a reply, synthesizes speech    *)
(* from the reply and sends it back as a voice message.  Every await of    *)
(* the handler is one action; the collaborators' answers are chosen by     *)
(* the environment.                                                         *)
(***************************************************************************)
EXTENDS Integers, Sequences, FiniteSets, TLC

(* ------------------------------ bounds -------------------------------- *)

\* Largest number of 'data' events one synthesis stream emits.
MaxChunks == 2

(* --------------------------- program constants ------------------------ *)

\* The value of message.chat.id when the field is absent (JS undefined).
Undefined == -1

\* `${fileId}` of an absent voice.file_id (JS undefined interpolated).
AbsentFileId == "undefined"

NOTICE_TEXT == "I couldn't understand the audio. Please try speaking more clearly."

APOLOGY_TEXT == "Sorry, I encountered an error processing your message. Please try again."

FALLBACK_REPLY == "I apologize, I could not generate a response."

INTERNAL_ERROR == "Internal server error"

\* String.prototype.trim strips these from both ends.
WhiteSpace == {" ", "\t", "\n", "\r"}

(* ------------------------------ inputs -------------------------------- *)

\* Invocations of POST: Spec interleaves both, SpecSingle runs the first alone.
Events == {"e1", "e2"}

Single == {"e1"}

ChatIds == {1, 2}

Obj(m, v, f, c, i) ==
    [json |-> "object", message |-> m, voice |-> v, file_id |-> f,
     chat |-> c, chat_id |-> i]

NonObj(k) ==
    [json |-> k, message |-> FALSE, voice |-> FALSE, file_id |-> AbsentFileId,
     chat |-> FALSE, chat_id |-> Undefined]

\* Request bodies the platform (or anyone else) may POST.
\*   json: "invalid" - body is not JSON; "nobody" - the request has no body;
\*         "null" - the JSON value null; "object" - a JSON object.
Requests ==
    { NonObj("invalid"), NonObj("nobody"), NonObj("null") }
    \cup { Obj(FALSE, FALSE, AbsentFileId, FALSE, Undefined),     \* no message
           Obj(TRUE, FALSE, AbsentFileId, TRUE, 1),               \* text message
           Obj(TRUE, FALSE, AbsentFileId, FALSE, Undefined),      \* no voice, no chat
           Obj(TRUE, TRUE, "f1", FALSE, Undefined),               \* voice, no chat
           Obj(TRUE, TRUE, "f1", TRUE, Undefined),                \* chat without id
           Obj(TRUE, TRUE, "", TRUE, 1),                          \* empty file_id
           Obj(TRUE, TRUE, AbsentFileId, TRUE, 1) }               \* voice: {}
    \cup { Obj(TRUE, TRUE, "f1", TRUE, c) : c \in ChatIds }

\* Answers of the collaborators.
GetFileResults == {"ok", "notok", "throw"}
DownloadResults == {"ok", "non2xx", "throw"}
SendResults == {"ok", "non2xx", "throw"}
FILE_PATH == "voice/abc.oga"
AudioBytes == <<7, 7>>

\* transcription.text, as a sequence of characters.
Transcripts == { <<>>, <<" ">>, <<"\n", " ">>, <<"h", "i">> }

Choice(has, c) == [hasContent |-> has, content |-> c]

\* completion.choices
Completions ==
    { <<>>, <<Choice(FALSE, "")>>, <<Choice(TRUE, "")>>, <<Choice(TRUE, "Hi!")>> }

\* The chunks a synthesis stream may emit.
Chunks == { <<1, 2>>, <<3>> }

(* ------------------------------- state -------------------------------- *)

VARIABLES
    pc,              \* position of each invocation in POST
    request,         \* the inbound request body of each invocation
    bodyUsed,        \* Request.bodyUsed: the body stream was read
    chatId,          \* const chatId (line 165)
    fileId,          \* const fileId (line 166)
    filePath,        \* const filePath (line 171)
    transcribedText, \* const transcribedText (line 179)
    completion,      \* completion.choices of getTutorResponse (line 68)
    tutorResponse,   \* const tutorResponse (line 188)
    chunks,          \* const chunks: Buffer[] of generateSpeech (line 96)
    speechBuffer,    \* const speechBuffer (line 192)
    stream,          \* state of the synthesis stream
    emitted,         \* every chunk the synthesis stream emitted, in order
    calls,           \* the collaborator calls made so far, in order
    fault,           \* message of the error caught at line 201 ("" if none)
    response         \* the HTTP response returned by POST

vars == <<pc, request, bodyUsed, chatId, fileId, filePath, transcribedText,
          completion, tutorResponse, chunks, speechBuffer, stream, emitted, calls, fault,
          response>>

NoResponse == [status |-> 0, ok |-> FALSE, error |-> ""]

\* NextResponse.json({ ok: true })
OkResponse == [status |-> 200, ok |-> TRUE, error |-> ""]

\* NextResponse.json({ ok: false, error: 'Internal server error' }, { status: 500 })
ErrorResponse == [status |-> 500, ok |-> FALSE, error |-> INTERNAL_ERROR]

\* The caught error's message put into the response body.
ErrorResponseOf_Message(msg) == [status |-> 500, ok |-> FALSE, error |-> msg]

\* return NextResponse.json({ error: 'Internal server error' }, { status: 500 })
\* (line 217): the caught error is not part of the response.
ErrorResponseOf(msg) == ErrorResponse

Call(op, chat, text, data, res) ==
    [op |-> op, chat_id |-> chat, text |-> text, data |-> data, res |-> res]

(* --------------------------- pure functions --------------------------- *)

RECURSIVE TrimStart(_)
TrimStart(s) ==
    IF s # <<>> /\ Head(s) \in WhiteSpace THEN TrimStart(Tail(s)) ELSE s

RECURSIVE TrimEnd(_)
TrimEnd(s) ==
    IF s # <<>> /\ s[Len(s)] \in WhiteSpace
    THEN TrimEnd(SubSeq(s, 1, Len(s) - 1))
    ELSE s

\* String.prototype.trim
Trim(s) == TrimEnd(TrimStart(s))

\* The test without the trim: !transcribedText
IsBlank_NoTrim(text) == text = <<>>

\* !transcribedText || transcribedText.trim() === ''
IsBlank(text) == text = <<>> \/ Trim(text) = <<>>

\* The fallback applied to a null content only: ?? in place of ||
FirstContentOrFallback_Nullish(choices) ==
    IF choices # <<>> /\ choices[1].hasContent
    THEN choices[1].content
    ELSE FALLBACK_REPLY

\* completion.choices[0]?.message?.content || '<fallback>'
FirstContentOrFallback(choices) ==
    IF choices # <<>> /\ choices[1].hasContent /\ choices[1].content # ""
    THEN choices[1].content
    ELSE FALLBACK_REPLY

\* Buffer.concat(chunks)
RECURSIVE BufferConcat(_)
BufferConcat(list) ==
    IF list = <<>> THEN <<>> ELSE Head(list) \o BufferConcat(Tail(list))

\* The chunk put in front: chunks.unshift(chunk)
Push_Unshift(list, chunk) == <<chunk>> \o list

\* chunks.push(chunk)
Push(list, chunk) == Append(list, chunk)

\* The filter with the voice test left out: !message
NotVoiceMessage_NoVoiceTest(body) == ~body.message

\* !message || !message.voice
NotVoiceMessage(body) == ~body.message \/ ~body.voice

\* The identifier read from the message in place of its voice:
\* message.file_id, which no update carries
FileIdOf_MessageField(body) == AbsentFileId

\* message.voice.file_id
FileIdOf(body) == body.file_id

\* A clone that could read the body a second time.
CloneThrows_Never(used) == FALSE

\* Request.clone() throws a TypeError when the body was already read
\* (Fetch standard: "If this is unusable, then throw a TypeError").
CloneThrows(used) == used

(* ------------------------------- Init --------------------------------- *)

Init ==
    /\ pc = [e \in Events |-> "idle"]
    /\ request = [e \in Events |-> NonObj("nobody")]
    /\ bodyUsed = [e \in Events |-> FALSE]
    /\ chatId = [e \in Events |-> Undefined]
    /\ fileId = [e \in Events |-> AbsentFileId]
    /\ filePath = [e \in Events |-> ""]
    /\ transcribedText = [e \in Events |-> <<>>]
    /\ completion = [e \in Events |-> <<>>]
    /\ tutorResponse = [e \in Events |-> ""]
    /\ chunks = [e \in Events |-> <<>>]
    /\ speechBuffer = [e \in Events |-> <<>>]
    /\ stream = [e \in Events |-> "none"]
    /\ emitted = [e \in Events |-> <<>>]
    /\ calls = [e \in Events |-> <<>>]
    /\ fault = [e \in Events |-> ""]
    /\ response = [e \in Events |-> NoResponse]

(* ------------------------------ actions ------------------------------- *)

\* throw: control passes to the catch block at line 201.
Throw(e, msg) ==
    /\ pc' = [pc EXCEPT ![e] = "catch"]
    /\ fault' = [fault EXCEPT ![e] = msg]

\* return NextResponse.json(...)
Return(e, resp) ==
    /\ pc' = [pc EXCEPT ![e] = "done"]
    /\ response' = [response EXCEPT ![e] = resp]

Log(e, c) == calls' = [calls EXCEPT ![e] = Append(@, c)]

\* The platform delivers a webhook request: POST is invoked.
Receive(e) ==
    /\ pc[e] = "idle"
    /\ \E r \in Requests : request' = [request EXCEPT ![e] = r]
    /\ pc' = [pc EXCEPT ![e] = "parse"]
    /\ UNCHANGED <<bodyUsed, chatId, fileId, filePath, transcribedText, completion,
                   tutorResponse, chunks, speechBuffer, stream, emitted, calls,
                   fault, response>>

\* const body = await request.json()   (line 152)
ParseBody(e) ==
    /\ pc[e] = "parse"
    /\ bodyUsed' = [bodyUsed EXCEPT ![e] = request[e].json # "nobody"]
    /\ IF request[e].json \in {"invalid", "nobody"}
       THEN Throw(e, "SyntaxError")
       ELSE /\ pc' = [pc EXCEPT ![e] = "filter"]
            /\ UNCHANGED fault
    /\ UNCHANGED <<request, chatId, fileId, filePath, transcribedText, completion,
                   tutorResponse, chunks, speechBuffer, stream, emitted, calls,
                   response>>

\* The ingress filter with a memory of the events seen: an event whose
\* payload another invocation has already taken past the filter is skipped.
Filter_Dedup(e) ==
    /\ pc[e] = "filter"
    /\ IF request[e].json = "null"
       THEN /\ Throw(e, "TypeError")
            /\ UNCHANGED <<chatId, fileId, response>>
       ELSE IF NotVoiceMessage(request[e])
       THEN /\ Return(e, OkResponse)
            /\ UNCHANGED <<chatId, fileId, fault>>
       ELSE IF ~request[e].chat
       THEN /\ Throw(e, "TypeError")
            /\ UNCHANGED <<chatId, fileId, response>>
       ELSE IF \E f \in Events \ {e} :
                  /\ request[f] = request[e]
                  /\ pc[f] \notin {"idle", "parse", "filter"}
       THEN /\ Return(e, OkResponse)
            /\ UNCHANGED <<chatId, fileId, fault>>
       ELSE /\ chatId' = [chatId EXCEPT ![e] = request[e].chat_id]
            /\ fileId' = [fileId EXCEPT ![e] = FileIdOf(request[e])]
            /\ pc' = [pc EXCEPT ![e] = "getFile"]
            /\ UNCHANGED <<fault, response>>
    /\ UNCHANGED <<request, bodyUsed, filePath, transcribedText, completion, tutorResponse,
                   chunks, speechBuffer, stream, emitted, calls>>

\* lines 158-166: the ingress filter and the extraction of chatId and fileId
Filter(e) ==
    /\ pc[e] = "filter"
    /\ IF request[e].json = "null"
       THEN \* body.message of null
            /\ Throw(e, "TypeError")
            /\ UNCHANGED <<chatId, fileId, response>>
       ELSE IF NotVoiceMessage(request[e])
       THEN /\ Return(e, OkResponse)
            /\ UNCHANGED <<chatId, fileId, fault>>
       ELSE IF ~request[e].chat
       THEN \* message.chat.id of undefined
            /\ Throw(e, "TypeError")
            /\ UNCHANGED <<chatId, fileId, response>>
       ELSE /\ chatId' = [chatId EXCEPT ![e] = request[e].chat_id]
            /\ fileId' = [fileId EXCEPT ![e] = FileIdOf(request[e])]
            /\ pc' = [pc EXCEPT ![e] = "getFile"]
            /\ UNCHANGED <<fault, response>>
    /\ UNCHANGED <<request, bodyUsed, filePath, transcribedText, completion, tutorResponse,
                   chunks, speechBuffer, stream, emitted, calls>>

\* const filePath = await getTelegramFilePath(fileId)   (lines 171, 22-31)
GetFile(e) ==
    /\ pc[e] = "getFile"
    /\ \E r \in GetFileResults :
         /\ Log(e, Call("getTelegramFilePath", Undefined, fileId[e], <<>>, r))
         /\ IF r = "ok"
            THEN /\ filePath' = [filePath EXCEPT ![e] = FILE_PATH]
                 /\ pc' = [pc EXCEPT ![e] = "download"]
                 /\ UNCHANGED fault
            ELSE /\ Throw(e, IF r = "notok"
                             THEN "Failed to get file path: file not found"
                             ELSE "fetch failed")
                 /\ UNCHANGED filePath
    /\ UNCHANGED <<request, bodyUsed, chatId, fileId, transcribedText, completion,
                   tutorResponse, chunks, speechBuffer, stream, emitted,
                   response>>

\* The download's failure not thrown: the handler goes on to transcription
\* whatever the download returned.
Download_NoThrow(e) ==
    /\ pc[e] = "download"
    /\ \E r \in DownloadResults :
         Log(e, Call("downloadTelegramFile", Undefined, filePath[e], <<>>, r))
    /\ pc' = [pc EXCEPT ![e] = "transcribe"]
    /\ UNCHANGED <<request, bodyUsed, chatId, fileId, filePath, transcribedText, completion,
                   tutorResponse, chunks, speechBuffer, stream, emitted,
                   fault, response>>

\* const audioBuffer = await downloadTelegramFile(filePath)   (lines 175, 36-45)
Download(e) ==
    /\ pc[e] = "download"
    /\ \E r \in DownloadResults :
         /\ Log(e, Call("downloadTelegramFile", Undefined, filePath[e], <<>>, r))
         /\ IF r = "ok"
            THEN /\ pc' = [pc EXCEPT ![e] = "transcribe"]
                 /\ UNCHANGED fault
            ELSE Throw(e, IF r = "non2xx"
                          THEN "Failed to download file: Not Found"
                          ELSE "fetch failed")
    /\ UNCHANGED <<request, bodyUsed, chatId, fileId, filePath, transcribedText, completion,
                   tutorResponse, chunks, speechBuffer, stream, emitted,
                   response>>

\* const transcribedText = await transcribeAudio(audioBuffer)   (lines 179, 50-62)
\* and the test of line 182
Transcribe(e) ==
    /\ pc[e] = "transcribe"
    /\ \/ \E t \in Transcripts :
            /\ Log(e, Call("transcribeAudio", Undefined, "", AudioBytes, "ok"))
            /\ transcribedText' = [transcribedText EXCEPT ![e] = t]
            /\ pc' = [pc EXCEPT ![e] = IF IsBlank(t) THEN "notice" ELSE "generate"]
            /\ UNCHANGED fault
       \/ /\ Log(e, Call("transcribeAudio", Undefined, "", AudioBytes, "throw"))
          /\ Throw(e, "transcription failed")
          /\ UNCHANGED transcribedText
    /\ UNCHANGED <<request, bodyUsed, chatId, fileId, filePath, completion,
                   tutorResponse, chunks, speechBuffer, stream, emitted, response>>

\* sendMessageToTelegram checking response.ok as sendVoiceToTelegram does.
SendMessageThrows_OnRejection(r) == r # "ok"

\* sendMessageToTelegram(chatId, text) answered r: only a rejected fetch throws
\* (lines 139-145).
SendMessageThrows(r) == r = "throw"

\* The notice without the return of line 184: the pipeline goes on.
Notice_NoReturn(e) ==
    /\ pc[e] = "notice"
    /\ \E r \in SendResults :
         /\ Log(e, Call("sendMessageToTelegram", chatId[e], NOTICE_TEXT, <<>>, r))
         /\ IF SendMessageThrows(r)
            THEN Throw(e, "fetch failed")
            ELSE /\ pc' = [pc EXCEPT ![e] = "generate"]
                 /\ UNCHANGED fault
    /\ UNCHANGED <<request, bodyUsed, chatId, fileId, filePath, transcribedText, completion,
                   tutorResponse, chunks, speechBuffer, stream, emitted, response>>

\* lines 183-184: the "could not understand" notice
Notice(e) ==
    /\ pc[e] = "notice"
    /\ \E r \in SendResults :
         /\ Log(e, Call("sendMessageToTelegram", chatId[e], NOTICE_TEXT, <<>>, r))
         /\ IF SendMessageThrows(r)
            THEN /\ Throw(e, "fetch failed")
                 /\ UNCHANGED response
            ELSE /\ Return(e, OkResponse)
                 /\ UNCHANGED fault
    /\ UNCHANGED <<request, bodyUsed, chatId, fileId, filePath, transcribedText, completion,
                   tutorResponse, chunks, speechBuffer, stream, emitted>>

\* const completion = await groq.chat.completions.create(...)   (lines 188, 68-82)
Generate(e) ==
    /\ pc[e] = "generate"
    /\ \/ \E c \in Completions :
            /\ Log(e, Call("getTutorResponse", Undefined, "", transcribedText[e], "ok"))
            /\ completion' = [completion EXCEPT ![e] = c]
            /\ pc' = [pc EXCEPT ![e] = "reply"]
            /\ UNCHANGED fault
       \/ /\ Log(e, Call("getTutorResponse", Undefined, "", transcribedText[e], "throw"))
          /\ Throw(e, "generation failed")
          /\ UNCHANGED completion
    /\ UNCHANGED <<request, bodyUsed, chatId, fileId, filePath, transcribedText,
                   tutorResponse, chunks, speechBuffer, stream, emitted, response>>

\* return completion.choices[0]?.message?.content || '...'   (line 84), which
\* ends getTutorResponse and with it the local completion, and line 188
Reply(e) ==
    /\ pc[e] = "reply"
    /\ tutorResponse' = [tutorResponse EXCEPT ![e] = FirstContentOrFallback(completion[e])]
    /\ completion' = [completion EXCEPT ![e] = <<>>]
    /\ pc' = [pc EXCEPT ![e] = "speech"]
    /\ UNCHANGED <<request, bodyUsed, chatId, fileId, filePath, transcribedText,
                   chunks, speechBuffer, stream, emitted, calls, fault, response>>

\* generateSpeech(tutorResponse) up to the registration of the stream's
\* listeners (lines 192, 91-111)
StartSpeech(e) ==
    /\ pc[e] = "speech"
    /\ \/ /\ Log(e, Call("generateSpeech", Undefined, tutorResponse[e], <<>>, "ok"))
          /\ chunks' = [chunks EXCEPT ![e] = <<>>]
          /\ stream' = [stream EXCEPT ![e] = "open"]
          /\ pc' = [pc EXCEPT ![e] = "stream"]
          /\ UNCHANGED fault
       \/ \* tts.setMetadata rejects
          /\ Log(e, Call("generateSpeech", Undefined, tutorResponse[e], <<>>, "throw"))
          /\ Throw(e, "tts connection failed")
          /\ UNCHANGED <<chunks, stream>>
    /\ UNCHANGED <<request, bodyUsed, chatId, fileId, filePath, transcribedText, completion,
                   tutorResponse, speechBuffer, emitted, response>>

\* The chunks kept in one array of the module, shared by all invocations, in
\* place of the local of line 96.
StreamData_SharedChunks(e) ==
    /\ pc[e] = "stream"
    /\ Len(emitted[e]) < MaxChunks
    /\ \E c \in Chunks :
         /\ emitted' = [emitted EXCEPT ![e] = Append(@, c)]
         /\ chunks' = [x \in Events |-> Push(chunks[x], c)]
    /\ UNCHANGED <<pc, request, bodyUsed, chatId, fileId, filePath,
                   transcribedText, completion, tutorResponse, speechBuffer, stream, calls,
                   fault, response>>

\* readable.on('data', chunk => chunks.push(chunk))   (lines 100-102)
StreamData(e) ==
    /\ pc[e] = "stream"
    /\ Len(emitted[e]) < MaxChunks
    /\ \E c \in Chunks :
         /\ emitted' = [emitted EXCEPT ![e] = Append(@, c)]
         /\ chunks' = [chunks EXCEPT ![e] = Push(@, c)]
    /\ UNCHANGED <<pc, request, bodyUsed, chatId, fileId, filePath,
                   transcribedText, completion, tutorResponse, speechBuffer, stream, calls,
                   fault, response>>

\* readable.on('end', () => resolve(Buffer.concat(chunks)))   (lines 104-106)
StreamEnd(e) ==
    /\ pc[e] = "stream"
    /\ stream' = [stream EXCEPT ![e] = "ended"]
    /\ speechBuffer' = [speechBuffer EXCEPT ![e] = BufferConcat(chunks[e])]
    /\ pc' = [pc EXCEPT ![e] = "sendVoice"]
    /\ UNCHANGED <<request, bodyUsed, chatId, fileId, filePath, transcribedText, completion,
                   tutorResponse, chunks, emitted, calls, fault, response>>

\* readable.on('error', err => reject(err))   (lines 108-110)
StreamError(e) ==
    /\ pc[e] = "stream"
    /\ stream' = [stream EXCEPT ![e] = "errored"]
    /\ Throw(e, "synthesis stream error")
    /\ UNCHANGED <<request, bodyUsed, chatId, fileId, filePath, transcribedText, completion,
                   tutorResponse, chunks, speechBuffer, emitted, calls, response>>

\* await sendVoiceToTelegram(chatId, speechBuffer)   (lines 196-199, 117-134)
SendVoice(e) ==
    /\ pc[e] = "sendVoice"
    /\ IF chatId[e] = Undefined
       THEN \* chatId.toString() of undefined, before any fetch
            /\ Log(e, Call("sendVoiceToTelegram", chatId[e], "", speechBuffer[e],
                           "typeerror"))
            /\ Throw(e, "TypeError")
            /\ UNCHANGED response
       ELSE \E r \in SendResults :
            /\ Log(e, Call("sendVoiceToTelegram", chatId[e], "", speechBuffer[e], r))
            /\ IF r = "ok"
               THEN /\ Return(e, OkResponse)
                    /\ UNCHANGED fault
               ELSE /\ Throw(e, IF r = "non2xx"
                                THEN "Failed to send voice: {\"ok\":false}"
                                ELSE "fetch failed")
                    /\ UNCHANGED response
    /\ UNCHANGED <<request, bodyUsed, chatId, fileId, filePath, transcribedText, completion,
                   tutorResponse, chunks, speechBuffer, stream, emitted>>

\* The catch block without its inner try (lines 205, 213-215): the fault of
\* request.clone() escapes the handler and no response is returned.
Catch_NoInnerTry(e) ==
    /\ pc[e] = "catch"
    /\ IF CloneThrows(bodyUsed[e]) \/ request[e].json # "object"
       THEN /\ pc' = [pc EXCEPT ![e] = "escaped"]
            /\ UNCHANGED <<calls, response>>
       ELSE /\ IF request[e].message /\ request[e].chat
                  /\ request[e].chat_id # Undefined /\ request[e].chat_id # 0
               THEN \E r \in SendResults :
                      Log(e, Call("sendMessageToTelegram", request[e].chat_id,
                                  APOLOGY_TEXT, <<>>, r))
               ELSE UNCHANGED calls
            /\ Return(e, ErrorResponse)
    /\ UNCHANGED <<request, bodyUsed, chatId, fileId, filePath, transcribedText, completion,
                   tutorResponse, chunks, speechBuffer, stream, emitted, fault>>

\* The catch block, lines 201-218: the attempt to notify the chat, whose own
\* faults are swallowed, and the 500 response.
Catch(e) ==
    /\ pc[e] = "catch"
    /\ IF CloneThrows(bodyUsed[e])
       THEN \* request.clone() throws; caught at line 213
            UNCHANGED calls
       ELSE IF request[e].json # "object"
       THEN \* the clone's json() throws, or body?.message is undefined
            UNCHANGED calls
       ELSE IF request[e].message /\ request[e].chat
               /\ request[e].chat_id # Undefined /\ request[e].chat_id # 0
       THEN \E r \in SendResults :
              Log(e, Call("sendMessageToTelegram", request[e].chat_id,
                          APOLOGY_TEXT, <<>>, r))
       ELSE UNCHANGED calls
    /\ Return(e, ErrorResponseOf(fault[e]))
    /\ UNCHANGED <<request, bodyUsed, chatId, fileId, filePath, transcribedText, completion,
                   tutorResponse, chunks, speechBuffer, stream, emitted, fault>>

Step(e) ==
    \/ Receive(e)
    \/ ParseBody(e)
    \/ Filter(e)
    \/ GetFile(e)
    \/ Download(e)
    \/ Transcribe(e)
    \/ Notice(e)
    \/ Generate(e)
    \/ Reply(e)
    \/ StartSpeech(e)
    \/ StreamData(e)
    \/ StreamEnd(e)
    \/ StreamError(e)
    \/ SendVoice(e)
    \/ Catch(e)

\* The invocations of POST, interleaved at their awaits.
Next == \E e \in Events : Step(e)

Spec == Init /\ [][Next]_vars

\* Every pending await of the handler of e is eventually settled: each
\* collaborator call succeeds or fails, and the synthesis stream signals its
\* end or an error.
Settle(e) ==
    \/ ParseBody(e)
    \/ Filter(e)
    \/ GetFile(e)
    \/ Download(e)
    \/ Transcribe(e)
    \/ Notice(e)
    \/ Generate(e)
    \/ Reply(e)
    \/ StartSpeech(e)
    \/ StreamEnd(e)
    \/ StreamError(e)
    \/ SendVoice(e)
    \/ Catch(e)

\* One invocation of POST alone, from the request to the response.
NextSingle == \E e \in Single : Step(e)

SpecSingle == Init /\ [][NextSingle]_vars

\* One invocation of POST whose awaits are all eventually settled.
FairSingle == SpecSingle /\ \A e \in Single : WF_vars(Settle(e))

(* --------------------- vocabulary of the properties ------------------- *)

CallsOf(e, op) == { i \in DOMAIN calls[e] : calls[e][i].op = op }

\* sendVoice calls the platform accepted.
VoiceDelivered(e) ==
    { i \in CallsOf(e, "sendVoiceToTelegram") : calls[e][i].res = "ok" }

\* sendMessage calls whose request reached the platform.
TextsSent(e) ==
    { i \in CallsOf(e, "sendMessageToTelegram") : calls[e][i].res # "throw" }

TextsSentWith(e, text) == { i \in TextsSent(e) : calls[e][i].text = text }

HasChatId(r) ==
    r.json = "object" /\ r.message /\ r.chat /\ r.chat_id # Undefined

\* A voice message that carries a chat id and a file identifier.
PassesIngress(r) ==
    HasChatId(r) /\ r.voice /\ r.file_id \notin {"", AbsentFileId}

\* An update object without message, or whose message has no voice.
LacksVoice(r) == r.json = "object" /\ (~r.message \/ ~r.voice)

(* ------------------------------- C1 ----------------------------------- *)

\* C1 (as claimed): whenever the handling of a voice message with a chat id
\* has returned, the chat was sent exactly one of the voice reply, the
\* "could not understand" notice or the apology notice - never nothing.
C1_NeverSilent ==
    \A e \in Events :
        (pc[e] = "done" /\ PassesIngress(request[e])) =>
            /\ Cardinality(VoiceDelivered(e))
                 + Cardinality(TextsSentWith(e, NOTICE_TEXT))
                 + Cardinality(TextsSentWith(e, APOLOGY_TEXT)) = 1
            /\ TextsSent(e) = TextsSentWith(e, NOTICE_TEXT)
                                \cup TextsSentWith(e, APOLOGY_TEXT)

(* ------------------------------- C2 ----------------------------------- *)

\* C2: in every state, the voice replies delivered plus the text notices
\* sent for one event are at most one; never a voice reply and a text.
C2_AtMostOneSend ==
    \A e \in Events :
        Cardinality(VoiceDelivered(e)) + Cardinality(TextsSent(e)) <= 1

\* An event ended with its notice sent, after an empty transcript.
C2_Witness ==
    \E e \in Events :
        /\ pc[e] = "done"
        /\ Cardinality(TextsSent(e)) = 1
        /\ Cardinality(VoiceDelivered(e)) = 0

(* ------------------------------- C3 ----------------------------------- *)

\* C3: an update without message, or whose message has no voice, makes no
\* collaborator call at any point and is answered 200 {ok: true}.
C3_NonVoiceSkipped ==
    \A e \in Events :
        (pc[e] # "idle" /\ LacksVoice(request[e])) =>
            /\ calls[e] = <<>>
            /\ pc[e] # "catch"
            /\ pc[e] = "done" => response[e] = OkResponse

\* A text message (a message with a chat and no voice) was answered.
C3_Witness ==
    \E e \in Events :
        /\ pc[e] = "done" /\ request[e].json = "object"
        /\ request[e].message /\ ~request[e].voice /\ request[e].chat
        /\ response[e] = OkResponse

(* ------------------------------- C4 ----------------------------------- *)

\* Empty or made of white space only.
AllWhite(t) == \A i \in DOMAIN t : t[i] \in WhiteSpace

\* The speech-to-text call of e returned an empty or whitespace-only string.
TranscribedBlank(e) ==
    /\ \E i \in CallsOf(e, "transcribeAudio") : calls[e][i].res = "ok"
    /\ AllWhite(transcribedText[e])

NoLaterStage(e) ==
    /\ CallsOf(e, "getTutorResponse") = {}
    /\ CallsOf(e, "generateSpeech") = {}
    /\ CallsOf(e, "sendVoiceToTelegram") = {}

FirstText(e) ==
    CHOOSE i \in CallsOf(e, "sendMessageToTelegram") :
        \A j \in CallsOf(e, "sendMessageToTelegram") : i <= j

\* C4 (as claimed): after an empty or whitespace-only transcript the tutor,
\* the synthesis and sendVoice are never invoked, exactly one text message is
\* sent, the fixed notice, and the event ends with {ok: true}, not in failure.
C4_EmptyTranscriptEndsOk ==
    \A e \in Events :
        TranscribedBlank(e) =>
            /\ NoLaterStage(e)
            /\ pc[e] # "catch"
            /\ pc[e] = "done" =>
                 /\ Cardinality(TextsSentWith(e, NOTICE_TEXT)) = 1
                 /\ Cardinality(CallsOf(e, "sendMessageToTelegram")) = 1
                 /\ response[e] = OkResponse
                 /\ fault[e] = ""

\* C4 (amended): after an empty or whitespace-only transcript the tutor, the
\* synthesis and sendVoice are never invoked and the first text message is
\* the fixed notice, to the event's chat; when that send does not throw it is
\* the only text message and the answer is 200 {ok: true}; when it throws the
\* event takes the failure path and the answer is 500.
C4_EmptyTranscriptNotice ==
    \A e \in Events :
        TranscribedBlank(e) =>
            /\ NoLaterStage(e)
            /\ CallsOf(e, "sendMessageToTelegram") # {} =>
                 /\ calls[e][FirstText(e)].text = NOTICE_TEXT
                 /\ calls[e][FirstText(e)].chat_id = request[e].chat_id
            /\ pc[e] = "done" =>
                 /\ CallsOf(e, "sendMessageToTelegram") # {}
                 /\ IF calls[e][FirstText(e)].res # "throw"
                    THEN /\ CallsOf(e, "sendMessageToTelegram") = {FirstText(e)}
                         /\ response[e] = OkResponse
                         /\ fault[e] = ""
                    ELSE /\ response[e] = ErrorResponse
                         /\ fault[e] # ""

\* A whitespace-only transcript was answered with the notice and {ok: true}.
C4_Witness ==
    \E e \in Events :
        /\ pc[e] = "done"
        /\ TranscribedBlank(e) /\ transcribedText[e] # <<>>
        /\ Cardinality(TextsSentWith(e, NOTICE_TEXT)) = 1
        /\ response[e] = OkResponse

(* ------------------------------- C5 ----------------------------------- *)

\* The apology sends addressed to the chat of the inbound event.
ApologiesToChat(e) ==
    { i \in CallsOf(e, "sendMessageToTelegram") :
        /\ calls[e][i].text = APOLOGY_TEXT
        /\ calls[e][i].chat_id = request[e].chat_id }

\* C5 (as claimed): when a stage of a voice message with a chat id faults, the
\* handler sends exactly one apology, to the chat id of the inbound event, and
\* answers 500 {ok: false, error: "Internal server error"}.
C5_FaultSendsApology ==
    \A e \in Events :
        (pc[e] = "done" /\ fault[e] # "" /\ PassesIngress(request[e])) =>
            /\ Cardinality(ApologiesToChat(e)) = 1
            /\ response[e] = ErrorResponse

(* ------------------------------- C6 ----------------------------------- *)

\* C6 (as claimed): when the synthesis stream emits an error before its end,
\* sendVoice is never invoked for the event and exactly one apology is sent.
C6_StreamErrorApology ==
    \A e \in Events :
        (stream[e] = "errored" /\ PassesIngress(request[e])) =>
            /\ CallsOf(e, "sendVoiceToTelegram") = {}
            /\ pc[e] = "done" => Cardinality(ApologiesToChat(e)) = 1

(* ------------------------------- C7 ----------------------------------- *)

\* The bytes of a list of chunks, in order, built from the last chunk back.
RECURSIVE JoinFromEnd(_)
JoinFromEnd(list) ==
    IF list = <<>>
    THEN <<>>
    ELSE JoinFromEnd(SubSeq(list, 1, Len(list) - 1)) \o list[Len(list)]

\* C7: sendVoice is invoked only after the synthesis stream ended, its payload
\* is the concatenation of every chunk the stream emitted, in arrival order,
\* and an event whose voice reply was delivered sends no text notice.
C7_VoiceIsWholeStream ==
    \A e \in Events :
        /\ pc[e] = "sendVoice" =>
             stream[e] = "ended" /\ speechBuffer[e] = JoinFromEnd(emitted[e])
        /\ \A i \in CallsOf(e, "sendVoiceToTelegram") :
             /\ stream[e] = "ended"
             /\ calls[e][i].data = JoinFromEnd(emitted[e])
             /\ calls[e][i].res = "ok" =>
                  /\ CallsOf(e, "sendMessageToTelegram") = {}
                  /\ pc[e] = "done" /\ response[e] = OkResponse

\* The stream emitted [1,2] then [3] and the voice delivered is [1,2,3].
C7_Witness ==
    \E e \in Events :
        /\ pc[e] = "done"
        /\ emitted[e] = << <<1, 2>>, <<3>> >>
        /\ \E i \in VoiceDelivered(e) : calls[e][i].data = <<1, 2, 3>>
        /\ CallsOf(e, "sendMessageToTelegram") = {}

(* ------------------------------- C8 ----------------------------------- *)

\* No completions, or a first completion without content.
NoContent(choices) == choices = <<>> \/ ~choices[1].hasContent

\* C8: when the text generation returns no completions, or a first completion
\* with no content, the reply is the fixed fallback string; the reply handed
\* to generateSpeech is the reply computed, and it is never empty.
C8_ReplyNeverEmpty ==
    /\ [](\A e \in Events :
            \A i \in CallsOf(e, "generateSpeech") :
                calls[e][i].text # "" /\ calls[e][i].text = tutorResponse[e])
    /\ [][\A e \in Events :
            (pc[e] = "reply" /\ pc'[e] = "speech") =>
                /\ tutorResponse'[e] # ""
                /\ NoContent(completion[e]) => tutorResponse'[e] = FALLBACK_REPLY
                /\ completion[e] = <<>> => tutorResponse'[e] = FALLBACK_REPLY]_vars

\* generateSpeech was invoked with the fallback string.
C8_Witness ==
    \E e \in Events :
        \E i \in CallsOf(e, "generateSpeech") : calls[e][i].text = FALLBACK_REPLY

(* ------------------------------- C9 ----------------------------------- *)

\* The event was handled: skipped, its empty-transcript notice sent, its
\* voice reply delivered, or its apology sent after a fault.
Handled(e) ==
    \/ LacksVoice(request[e])
    \/ TranscribedBlank(e) /\ TextsSentWith(e, NOTICE_TEXT) # {}
    \/ VoiceDelivered(e) # {}
    \/ TextsSentWith(e, APOLOGY_TEXT) # {}

Actionable(r) ==
    r.json = "object" /\ r.message /\ r.voice /\ r.file_id \notin {"", AbsentFileId}

\* C10 (as claimed): an update is acted on only if it carries a message with a
\* voice with a non-empty file identifier; any other update is answered
\* {ok: true} without an outbound call, and getFile is never invoked with an
\* empty identifier.
C10_EmptyFileIdSkipped ==
    \A e \in Events :
        /\ (pc[e] # "idle" /\ request[e].json = "object" /\ ~Actionable(request[e])) =>
             /\ calls[e] = <<>>
             /\ pc[e] = "done" => response[e] = OkResponse
        /\ \A i \in CallsOf(e, "getTelegramFilePath") : calls[e][i].text # ""

(* ------------------------------- C11 ---------------------------------- *)

\* One of message, message.voice, message.voice.file_id, message.chat and
\* message.chat.id is absent from the update object.
FieldAbsent(r) ==
    /\ r.json = "object"
    /\ \/ ~r.message
       \/ ~r.voice
       \/ r.file_id = AbsentFileId
       \/ ~r.chat
       \/ r.chat_id = Undefined

\* A collaborator answered a call of e with a failure.
CollaboratorFault(e) ==
    \E i \in DOMAIN calls[e] : calls[e][i].res \in {"notok", "non2xx", "throw"}

\* C11 (as claimed): an absent field of the update is no failure: as long as
\* no collaborator fails, an update with an absent message, voice, file_id,
\* chat or chat.id never takes the failure path and is never answered 500.
C11_AbsentFieldsNoFailure ==
    \A e \in Events :
        (pc[e] # "idle" /\ FieldAbsent(request[e]) /\ ~CollaboratorFault(e)) =>
            /\ pc[e] # "catch"
            /\ fault[e] = ""
            /\ response[e].status # 500

(* ------------------------------- C12 ---------------------------------- *)

\* The handler of e is past the extraction of chatId and fileId.
PastFilter(e) ==
    pc[e] \in {"download", "transcribe", "notice", "generate", "reply", "speech",
               "stream", "sendVoice"}

\* C12: for an update whose voice carries a non-empty file identifier, the
\* first collaborator call is getFile, made with exactly that identifier; no
\* other call precedes it, and no later stage runs without it.
C12_GetFileFirst ==
    \A e \in Events :
        (request[e].json = "object" /\ request[e].message /\ request[e].voice
         /\ request[e].file_id \notin {"", AbsentFileId}) =>
            /\ calls[e] # <<>> =>
                 /\ calls[e][1].op = "getTelegramFilePath"
                 /\ calls[e][1].text = request[e].file_id
            /\ PastFilter(e) => calls[e] # <<>>
            /\ (pc[e] = "done" /\ request[e].chat) => calls[e] # <<>>

\* The whole pipeline ran for the file "f1" and getFile was its first call.
C12_Witness ==
    \E e \in Events :
        /\ pc[e] = "done"
        /\ request[e].file_id = "f1"
        /\ Len(calls[e]) >= 6
        /\ calls[e][1].op = "getTelegramFilePath"
        /\ calls[e][1].text = "f1"

(* ------------------------------- C13 ---------------------------------- *)

\* C13: when every collaborator call is eventually answered and the synthesis
\* stream eventually ends or fails, every invocation of POST eventually
\* returns an HTTP response, 200 or 500; a fault of the notification in the
\* catch block is swallowed and the 500 is still returned.
C13_AlwaysResponds ==
    \A e \in Single :
        [](pc[e] # "idle" =>
              <>(pc[e] = "done" /\ response[e] \in {OkResponse, ErrorResponse}))

\* A stage faulted, the notification in the catch block failed on the body
\* already read, and the 500 was returned all the same.
C13_Witness ==
    \E e \in Single :
        /\ pc[e] = "done"
        /\ fault[e] # "" /\ bodyUsed[e]
        /\ CallsOf(e, "sendMessageToTelegram") = {}
        /\ response[e] = ErrorResponse

(* ------------------------------- C14 ---------------------------------- *)

\* The locals of e hold nothing but what e's own request and collaborators
\* produced.
OwnLocals(e) ==
    /\ chatId[e] \in {Undefined, request[e].chat_id}
    /\ fileId[e] \in {AbsentFileId, request[e].file_id}
    /\ chunks[e] \in {<<>>, emitted[e]}
    /\ pc[e] = "sendVoice" => speechBuffer[e] = JoinFromEnd(emitted[e])

\* C14: under every interleaving of the invocations, an event's locals are
\* its own: the voice payload it uploads is made of the chunks of its own
\* synthesis stream only, and each of its voice and text sends goes to the
\* chat id of its own request.
C14_NoInterference ==
    \A e \in Events :
        /\ OwnLocals(e)
        /\ \A i \in CallsOf(e, "sendVoiceToTelegram") :
             /\ calls[e][i].data = JoinFromEnd(emitted[e])
             /\ calls[e][i].chat_id = request[e].chat_id
        /\ \A i \in CallsOf(e, "sendMessageToTelegram") :
             calls[e][i].chat_id = request[e].chat_id
        /\ \A i \in CallsOf(e, "getTutorResponse") :
             calls[e][i].data = transcribedText[e]

\* Two invocations for different chats, with different synthesis streams,
\* each delivered its own voice reply.
C14_Witness ==
    \E e, f \in Events :
        /\ pc[e] = "done" /\ pc[f] = "done"
        /\ request[e].chat_id = 1 /\ request[f].chat_id = 2
        /\ emitted[e] = << <<1, 2>> >> /\ emitted[f] = << <<3>>, <<1, 2>> >>
        /\ \E i \in VoiceDelivered(e) :
             calls[e][i].data = <<1, 2>> /\ calls[e][i].chat_id = 1
        /\ \E i \in VoiceDelivered(f) :
             calls[f][i].data = <<3, 1, 2>> /\ calls[f][i].chat_id = 2

(* ------------------------------- C15 ---------------------------------- *)

\* C15: the only text messages ever sent are the two fixed strings (the
\* empty-transcript notice and the apology), and a 500 response carries the
\* fixed error string, never the text of the fault that caused it.
C15_FixedTexts ==
    \A e \in Events :
        /\ \A i \in CallsOf(e, "sendMessageToTelegram") :
             calls[e][i].text \in {NOTICE_TEXT, APOLOGY_TEXT}
        /\ response[e].status = 500 =>
             /\ response[e].error = INTERNAL_ERROR
             /\ response[e].error # fault[e]

\* A collaborator's fault with a message of its own ended in the fixed 500
\* body.
C15_Witness ==
    \E e \in Events :
        /\ pc[e] = "done"
        /\ fault[e] \notin {"", INTERNAL_ERROR}
        /\ Len(calls[e]) >= 1
        /\ response[e].status = 500
        /\ response[e].error = INTERNAL_ERROR

(* ------------------------------- C16 ---------------------------------- *)

PipelineStages ==
    << "getTelegramFilePath", "downloadTelegramFile", "transcribeAudio",
       "getTutorResponse", "generateSpeech", "sendVoiceToTelegram" >>

IsStageCall(c) == c.op # "sendMessageToTelegram"

\* The pipeline calls of e, in the order they were made.
PipelineCalls(e) == SelectSeq(calls[e], IsStageCall)

\* C16: the pipeline calls of an event are a prefix of getFile, download,
\* transcribe, generate, synthesize, sendVoice (so each at most once and in
\* that order); every call but the last one succeeded; after an empty
\* transcript there is no generate call, after a synthesis stream error no
\* sendVoice call, and a text message is only ever the last call of all.
C16_StageOrder ==
    \A e \in Events :
        LET p == PipelineCalls(e) IN
        /\ Len(p) <= Len(PipelineStages)
        /\ \A i \in DOMAIN p : p[i].op = PipelineStages[i]
        /\ \A i \in DOMAIN p : i < Len(p) => p[i].res = "ok"
        /\ (Len(p) >= 3 /\ p[3].res = "ok" /\ AllWhite(transcribedText[e])) => Len(p) = 3
        /\ stream[e] = "errored" => Len(p) <= 5
        /\ \A i \in CallsOf(e, "sendMessageToTelegram") : i = Len(calls[e])
        /\ pc[e] = "done" /\ Len(p) = 6 => Len(calls[e]) = 6

\* All six stages were called, in order, and the event is over.
C16_Witness ==
    \E e \in Events :
        /\ pc[e] = "done"
        /\ Len(calls[e]) = 6
        /\ \A i \in 1..6 : calls[e][i].op = PipelineStages[i]
        /\ \E f \in Events : pc[f] = "done" /\ stream[f] = "errored" /\ Len(calls[f]) = 5

(* ------------------------------- C17 ---------------------------------- *)

\* A stage after the initial parse faulted for an event whose payload carried
\* message.chat.id, and the fault handler has run.
FaultHandled(e) ==
    /\ pc[e] = "done"
    /\ fault[e] # ""
    /\ bodyUsed[e]
    /\ request[e].json = "object" /\ request[e].message
    /\ request[e].voice /\ request[e].file_id \notin {"", AbsentFileId}
    /\ request[e].chat /\ request[e].chat_id \in ChatIds

\* C17: when a stage faults for an event that carried message.chat.id, the
\* fault handler's second read of the request body yields that chat id and
\* the apology send is attempted (a sendMessage call with the apology text
\* to that chat is made, whatever its outcome).
C17_ReReadYieldsChatId ==
    \A e \in Events :
        FaultHandled(e) =>
            \E i \in CallsOf(e, "sendMessageToTelegram") :
                /\ calls[e][i].text = APOLOGY_TEXT
                /\ calls[e][i].chat_id = request[e].chat_id

(* ------------------------------- C18 ---------------------------------- *)

\* The invocation for e is over and none of its collaborators failed.
AllSucceeded(e) ==
    /\ pc[e] = "done"
    /\ fault[e] = ""
    /\ stream[e] # "errored"
    /\ \A i \in DOMAIN calls[e] : calls[e][i].res = "ok"

\* C18: two deliveries of the same voice event (same chat id and file id),
\* handled in any interleaving with every collaborator succeeding and a
\* transcript that is not empty, each run the whole pipeline: each of the
\* two invocations makes the six stage calls and delivers one voice reply
\* to the chat, so the chat receives two.
C18_DuplicateRepliesTwice ==
    \A e, f \in Events :
        ( /\ e # f
          /\ request[e] = request[f]
          /\ PassesIngress(request[e])
          /\ AllSucceeded(e) /\ AllSucceeded(f)
          /\ ~TranscribedBlank(e) /\ ~TranscribedBlank(f) )
        =>
        \A x \in {e, f} :
            /\ Len(PipelineCalls(x)) = 6
            /\ Cardinality(VoiceDelivered(x)) = 1
            /\ \A i \in VoiceDelivered(x) : calls[x][i].chat_id = request[x].chat_id

\* The same event delivered twice, and two voice replies sent to its chat.
C18_Witness ==
    \E e, f \in Events :
        /\ e # f
        /\ request[e] = request[f]
        /\ request[e].file_id = "f1" /\ request[e].chat_id = 1
        /\ pc[e] = "done" /\ pc[f] = "done"
        /\ \E i \in VoiceDelivered(e) : calls[e][i].chat_id = 1
        /\ \E j \in VoiceDelivered(f) : calls[f][j].chat_id = 1

(* ------------------------------- C19 ---------------------------------- *)

\* C19: a text send that the platform rejects with a non-2xx response counts
\* as sent: the empty-transcript notice so rejected still ends the event with
\* HTTP 200 {ok: true}, no fault and no apology attempt; a text send fails
\* only when the transport throws. A voice send rejected with a non-2xx
\* response fails the event: a fault is raised, no voice counts as delivered
\* and the response is the 500.
C19_RejectedTextIsSuccess ==
    \A e \in Events :
        /\ \A i \in CallsOf(e, "sendMessageToTelegram") :
             /\ calls[e][i].res = "non2xx" =>
                  /\ pc[e] = "done"
                  /\ response[e] = OkResponse
                  /\ fault[e] = ""
                  /\ \A j \in CallsOf(e, "sendMessageToTelegram") :
                       calls[e][j].text # APOLOGY_TEXT
                  /\ Len(calls[e]) = i
             /\ calls[e][i].res = "throw" =>
                  /\ fault[e] = "fetch failed"
                  /\ response[e] # OkResponse
        /\ \A i \in CallsOf(e, "sendVoiceToTelegram") :
             calls[e][i].res = "non2xx" =>
                  /\ fault[e] # ""
                  /\ pc[e] \in {"catch", "done"}
                  /\ pc[e] = "done" => response[e] = ErrorResponse
                  /\ VoiceDelivered(e) = {}

\* An empty transcript whose notice the platform rejected ended with 200, and
\* a voice send the platform rejected ended with 500.
C19_Witness ==
    \E e, f \in Events :
        /\ pc[e] = "done" /\ response[e] = OkResponse
        /\ AllWhite(transcribedText[e])
        /\ \E i \in CallsOf(e, "sendMessageToTelegram") :
             calls[e][i].text = NOTICE_TEXT /\ calls[e][i].res = "non2xx"
        /\ pc[f] = "done" /\ response[f] = ErrorResponse
        /\ \E j \in CallsOf(f, "sendVoiceToTelegram") : calls[f][j].res = "non2xx"

====
